---------------------------- MODULE Spec2Model ----------------------------
(***************************************************************************)
(* A model of the log analyzer of src/src/App.js: the schema inference     *)
(* (extractAllKeys, analyzeLogStructure), the path accessor                *)
(* (getNestedValue), the filter / sort / paginate pipeline (processedLogs, *)
(* paginatedLogs) and the state of the App component with its handlers and *)
(* effects.                                                                *)
(*                                                                         *)
(* JavaScript strings are sequences of one-character strings, so that      *)
(* split, toLowerCase, includes and the code-unit order are computed.      *)
(* JavaScript values are tagged pairs << tag, payload >>.                   *)
(***************************************************************************)
EXTENDS Integers, Sequences, FiniteSets, TLC

(***************************************************************************)
(* Strings                                                                 *)
(***************************************************************************)

\* The characters of the model in increasing UTF-16 code unit order.
CharOrder ==
    << " ", ",", "-", ".", "/",
       "0", "1", "2", "3", "4", "5", "6", "7", "8", "9",
       ":", "@",
       "A", "B", "C", "D", "E", "F", "G", "H", "I", "J", "K", "L", "M",
       "N", "O", "P", "Q", "R", "S", "T", "U", "V", "W", "X", "Y", "Z",
       "[", "]", "_",
       "a", "b", "c", "d", "e", "f", "g", "h", "i", "j", "k", "l", "m",
       "n", "o", "p", "q", "r", "s", "t", "u", "v", "w", "x", "y", "z" >>

CharSet == { CharOrder[i] : i \in DOMAIN CharOrder }

\* The rank of a character in the code unit order.
CodeOf == [ c \in CharSet |-> CHOOSE i \in DOMAIN CharOrder : CharOrder[i] = c ]

DigitChars == << "0", "1", "2", "3", "4", "5", "6", "7", "8", "9" >>

IsDigit(c) == \E i \in 1..10 : DigitChars[i] = c

DigitVal(c) == (CHOOSE i \in 1..10 : DigitChars[i] = c) - 1

IsUpper(c) == CodeOf[c] >= CodeOf["A"] /\ CodeOf[c] <= CodeOf["Z"]

\* String.prototype.toLowerCase, one character.
LowerChar(c) == IF IsUpper(c) THEN CharOrder[CodeOf[c] - CodeOf["A"] + CodeOf["a"]] ELSE c

\* String.prototype.toLowerCase.
ToLowerCase(s) == [ i \in 1..Len(s) |-> LowerChar(s[i]) ]

\* s < t for two JavaScript strings: the order of their code units.
StrLess(s, t) ==
    \E i \in 1..Len(t) :
        /\ i - 1 <= Len(s)
        /\ \A j \in 1..(i - 1) : s[j] = t[j]
        /\ (i = Len(s) + 1 \/ (i <= Len(s) /\ CodeOf[s[i]] < CodeOf[t[i]]))

\* String.prototype.startsWith / endsWith / includes.
StartsWith(s, p) == Len(p) <= Len(s) /\ SubSeq(s, 1, Len(p)) = p

EndsWith(s, p) == Len(p) <= Len(s) /\ SubSeq(s, Len(s) - Len(p) + 1, Len(s)) = p

Includes(s, p) == \E k \in 0..(Len(s) - Len(p)) : SubSeq(s, k + 1, k + Len(p)) = p

\* String.prototype.trim() === '' (the only white space of the model is " ").
IsBlank(s) == \A i \in 1..Len(s) : s[i] = " "

\* String.prototype.split('.'): the segments between the dots, empty ones kept.
RECURSIVE SplitDots(_)
SplitDots(s) ==
    IF \A i \in 1..Len(s) : s[i] # "."
    THEN << s >>
    ELSE LET d == CHOOSE i \in 1..Len(s) : s[i] = "." /\ \A j \in 1..(i - 1) : s[j] # "."
         IN  << SubSeq(s, 1, d - 1) >> \o SplitDots(SubSeq(s, d + 1, Len(s)))

\* The decimal digits of a natural number, as String(n) writes them.
RECURSIVE NatToStr(_)
NatToStr(n) ==
    IF n < 10 THEN << DigitChars[n + 1] >>
    ELSE NatToStr(n \div 10) \o << DigitChars[(n % 10) + 1] >>

\* The value of a string of decimal digits.
RECURSIVE DigitsToNat(_)
DigitsToNat(s) ==
    IF s = << >> THEN 0
    ELSE 10 * DigitsToNat(SubSeq(s, 1, Len(s) - 1)) + DigitVal(s[Len(s)])

AllDigits(s) == \A i \in 1..Len(s) : IsDigit(s[i])

\* A sequence of strings in increasing order (Array.prototype.sort() with no
\* comparator, on distinct strings).
RECURSIVE SortStrings(_)
SortStrings(S) ==
    IF S = {} THEN << >>
    ELSE LET m == CHOOSE x \in S : \A y \in S \ {x} : StrLess(x, y)
         IN  << m >> \o SortStrings(S \ {m})

(***************************************************************************)
(* JavaScript values                                                       *)
(***************************************************************************)

Undefined == << "undefined", 0 >>
JNull == << "null", 0 >>
JBool(b) == << "boolean", b >>
JNum(n) == << "number", n >>
JStr(s) == << "string", s >>
JArr(a) == << "array", a >>
\* A plain object: a function from its own keys (strings) to values.
JObj(f) == << "object", f >>

Tag(x) == x[1]
Val(x) == x[2]

EmptyStr == JStr(<< >>)

\* The result of Number(x): a natural number or NaN.
NaN == [nan |-> TRUE, n |-> 0]
Fin(n) == [nan |-> FALSE, n |-> n]

\* ToBoolean: what `x ? .. : ..`, `x && ..`, `x || ..` and `!x` test.
Truthy(x) ==
    CASE Tag(x) = "undefined" -> FALSE
      [] Tag(x) = "null" -> FALSE
      [] Tag(x) = "boolean" -> Val(x)
      [] Tag(x) = "number" -> Val(x) # 0
      [] Tag(x) = "string" -> Val(x) # << >>
      [] OTHER -> TRUE

\* typeof x === 'object' && x && !Array.isArray(x)
IsPlainObject(x) == Tag(x) = "object"

\* String(x).  Numbers of the model are naturals.
RECURSIVE JsString(_)
RECURSIVE JoinComma(_)
JsString(x) ==
    CASE Tag(x) = "undefined" -> << "u", "n", "d", "e", "f", "i", "n", "e", "d" >>
      [] Tag(x) = "null" -> << "n", "u", "l", "l" >>
      [] Tag(x) = "boolean" -> IF Val(x) THEN << "t", "r", "u", "e" >>
                            ELSE << "f", "a", "l", "s", "e" >>
      [] Tag(x) = "number" -> NatToStr(Val(x))
      [] Tag(x) = "string" -> Val(x)
      [] Tag(x) = "array" -> JoinComma(Val(x))
      [] OTHER -> << "[", "o", "b", "j", "e", "c", "t", " ",
                     "O", "b", "j", "e", "c", "t", "]" >>

\* Array.prototype.join(','): null and undefined elements give the empty string.
JoinComma(a) ==
    IF a = << >> THEN << >>
    ELSE LET h == IF Tag(a[1]) \in {"undefined", "null"} THEN << >> ELSE JsString(a[1])
         IN  IF Len(a) = 1 THEN h ELSE h \o << "," >> \o JoinComma(Tail(a))

\* Number(string) for the strings of the model: white space only is 0, decimal
\* digits are their value, anything else is NaN.  (The model's strings carry no
\* sign, decimal point, exponent, radix prefix or "Infinity".)
StrToNumber(s) ==
    IF IsBlank(s) THEN Fin(0)
    ELSE IF AllDigits(s) THEN Fin(DigitsToNat(s))
    ELSE NaN

\* Number(x).
ToNumber(x) ==
    CASE Tag(x) = "undefined" -> NaN
      [] Tag(x) = "null" -> Fin(0)
      [] Tag(x) = "boolean" -> IF Val(x) THEN Fin(1) ELSE Fin(0)
      [] Tag(x) = "number" -> Fin(Val(x))
      [] Tag(x) = "string" -> StrToNumber(Val(x))
      [] Tag(x) = "array" -> StrToNumber(JoinComma(Val(x)))
      [] OTHER -> NaN

\* A canonical array index: "0", or digits with no leading zero.
IsIndex(k) == k # << >> /\ AllDigits(k) /\ (Len(k) = 1 \/ k[1] # "0")

LengthKey == << "l", "e", "n", "g", "t", "h" >>

\* x[key] for a value x that is neither null nor undefined: an own key of an
\* object; an element or the length of an array; a character or the length of a
\* string; undefined otherwise.  (No key of the model names a property inherited
\* from a prototype, such as "constructor" or "toString".)
GetProp(x, key) ==
    CASE Tag(x) = "object" -> IF key \in DOMAIN Val(x) THEN Val(x)[key] ELSE Undefined
      [] Tag(x) = "array" ->
            IF key = LengthKey THEN JNum(Len(Val(x)))
            ELSE IF IsIndex(key) /\ DigitsToNat(key) < Len(Val(x))
                 THEN Val(x)[DigitsToNat(key) + 1]
                 ELSE Undefined
      [] Tag(x) = "string" ->
            IF key = LengthKey THEN JNum(Len(Val(x)))
            ELSE IF IsIndex(key) /\ DigitsToNat(key) < Len(Val(x))
                 THEN JStr(<< Val(x)[DigitsToNat(key) + 1] >>)
                 ELSE Undefined
      [] OTHER -> Undefined

(***************************************************************************)
(* PathAccessor and SchemaInferencer                                       *)
(***************************************************************************)

\* The reducer of getNestedValue: one segment of the nested path.
ReduceStep(current, key) ==
    IF Truthy(current) /\ GetProp(current, key) # Undefined
    THEN GetProp(current, key)
    ELSE Undefined

RECURSIVE ReducePath(_, _)
ReducePath(current, segs) ==
    IF segs = << >> THEN current
    ELSE ReducePath(ReduceStep(current, Head(segs)), Tail(segs))

\* getNestedValue(obj, path): the literal key first, then the nested path.
getNestedValue(obj, path) ==
    IF Truthy(obj) /\ GetProp(obj, path) # Undefined
    THEN GetProp(obj, path)
    ELSE ReducePath(obj, SplitDots(path))

\* value !== null && value !== undefined && value !== ''
Meaningful(value) == value # JNull /\ value # Undefined /\ value # EmptyStr

\* A variant of traverse that recurses into every nested object, whatever the
\* prefix.
RECURSIVE traverseAnyDepth(_, _)
traverseAnyDepth(obj, prefix) ==
    IF ~IsPlainObject(obj) THEN {}
    ELSE UNION {
        LET fullKey == IF prefix # << >> THEN prefix \o << "." >> \o key ELSE key
            value == Val(obj)[key]
            counted == IF Meaningful(value) THEN {fullKey} ELSE {}
            nested == IF IsPlainObject(value) THEN traverseAnyDepth(value, fullKey) ELSE {}
        IN  counted \cup nested : key \in DOMAIN Val(obj) }

\* traverse(obj, prefix) of extractAllKeys: the keys it counts.
RECURSIVE traverse(_, _)
traverse(obj, prefix) ==
    IF ~IsPlainObject(obj) THEN {}
    ELSE UNION {
        LET fullKey == IF prefix # << >> THEN prefix \o << "." >> \o key ELSE key
            value == Val(obj)[key]
            counted == IF Meaningful(value) THEN {fullKey} ELSE {}
            nested ==
                IF prefix = << >> /\ IsPlainObject(value) /\ ~Includes(key, << "." >>)
                THEN traverse(value, fullKey)
                ELSE IF prefix # << >> /\ Len(SplitDots(prefix)) < 3 /\ IsPlainObject(value)
                     THEN traverse(value, fullKey)
                     ELSE {}
        IN  counted \cup nested : key \in DOMAIN Val(obj) }

\* extractAllKeys(objects): the sorted keys that carry a value in some object.
extractAllKeys(objects) ==
    SortStrings(UNION { traverse(objects[i], << >>) : i \in DOMAIN objects })

\* The strings, other than Unix and ISO 8601 time stamps, that new Date(str)
\* may or may not parse (to a year after 1990), depending on the engine: the
\* format is implementation-defined.  Every such string of the model holds a
\* digit; a string of the model without one is no date in any engine.
LegacyDateStrings == { << "5" >> }

\* /^\d{10}(\.\d+)?$/
IsUnixSeconds(str) ==
    \/ Len(str) = 10 /\ AllDigits(str)
    \/ /\ Len(str) > 11
       /\ AllDigits(SubSeq(str, 1, 10))
       /\ str[11] = "."
       /\ AllDigits(SubSeq(str, 12, Len(str)))

\* /^\d{13}$/
IsUnixMillis(str) == Len(str) = 13 /\ AllDigits(str)

\* /^\d{4}-\d{2}-\d{2}T\d{2}:\d{2}:\d{2}/
IsIsoPrefix(str) ==
    /\ Len(str) >= 19
    /\ \A i \in {1, 2, 3, 4, 6, 7, 9, 10, 12, 13, 15, 16, 18, 19} : IsDigit(str[i])
    /\ str[5] = "-" /\ str[8] = "-" /\ str[11] = "T"
    /\ str[14] = ":" /\ str[17] = ":"

\* timestampPatterns.some(pattern => pattern.test(name))
NameMatches(name) ==
    \/ name = << "t", "s" >>
    \/ StartsWith(name, << "t", "i", "m", "e" >>)
    \/ StartsWith(name, << "t", "i", "m", "e", "s", "t", "a", "m", "p" >>)
    \/ StartsWith(name, << "d", "a", "t", "e" >>)
    \/ StartsWith(name, << "c", "r", "e", "a", "t", "e", "d" >>)
    \/ StartsWith(name, << "u", "p", "d", "a", "t", "e", "d" >>)
    \/ StartsWith(name, << "m", "o", "d", "i", "f", "i", "e", "d" >>)
    \/ EndsWith(name, << "_", "t", "i", "m", "e" >>)
    \/ EndsWith(name, << "_", "d", "a", "t", "e" >>)
    \/ EndsWith(name, << "_", "t", "s" >>)
    \/ StartsWith(name, << "s", "t", "a", "r", "t" >>)
    \/ StartsWith(name, << "e", "n", "d" >>)
    \/ StartsWith(name, << "e", "v", "e", "n", "t", "_", "t", "i", "m", "e" >>)
    \/ StartsWith(name, << "l", "o", "g", "_", "t", "i", "m", "e" >>)
    \/ StartsWith(name, << "o", "c", "c", "u", "r" >>)
    \/ Includes(name, << "@", "t", "i", "m", "e", "s", "t", "a", "m", "p" >>)
    \/ name = << "w", "h", "e", "n" >>
    \/ name = << "a", "t" >>

\* The test of one sample value in isTimestampColumn; `accepts` is the set of
\* legacy date strings the engine parses to a year after 1990.
ValueLooksLikeTime(value, accepts) ==
    /\ Truthy(value)
    /\ LET str == JsString(value)
       IN  \/ IsUnixSeconds(str)
           \/ IsUnixMillis(str)
           \/ IsIsoPrefix(str)
           \/ str \in accepts

\* isTimestampColumn(columnName, sampleValues)
isTimestampColumn(columnName, sampleValues, accepts) ==
    \/ NameMatches(ToLowerCase(columnName))
    \/ \E i \in 1..Len(sampleValues) :
          i <= 3 /\ ValueLooksLikeTime(sampleValues[i], accepts)

\* logs.slice(0, 10).map(log => getNestedValue(log, key)).filter(v => v !== undefined)
SampleValues(logs, key) ==
    LET first == SubSeq(logs, 1, IF Len(logs) < 10 THEN Len(logs) ELSE 10)
        vals == [ i \in 1..Len(first) |-> getNestedValue(first[i], key) ]
        Defined(v) == v # Undefined
    IN  SelectSeq(vals, Defined)

\* A variant of analyzeLogStructure that classifies the own keys of the first
\* record, whatever their values, instead of the inferred columns.
analyzeLogStructureOwnKeys(logs, accepts) ==
    IF Len(logs) = 0 THEN [columns |-> << >>, timestampColumns |-> << >>]
    ELSE LET allKeys == extractAllKeys(logs)
             ownKeys == SortStrings(IF IsPlainObject(logs[1])
                                    THEN DOMAIN Val(logs[1]) ELSE {})
             IsTs(key) == isTimestampColumn(key, SampleValues(logs, key), accepts)
         IN  [columns |-> allKeys, timestampColumns |-> SelectSeq(ownKeys, IsTs)]

\* analyzeLogStructure(logs)
analyzeLogStructure(logs, accepts) ==
    IF Len(logs) = 0 THEN [columns |-> << >>, timestampColumns |-> << >>]
    ELSE LET allKeys == extractAllKeys(logs)
             IsTs(key) == isTimestampColumn(key, SampleValues(logs, key), accepts)
         IN  [columns |-> allKeys, timestampColumns |-> SelectSeq(allKeys, IsTs)]

\* The elements of a sequence.
Range(seq) == { seq[i] : i \in DOMAIN seq }

\* A variant of reorderColumns that takes the timestamp columns, like the others,
\* in the order of allColumns.
reorderColumnsInSchemaOrder(allColumns, timestampColumns) ==
    LET IsTs(col) == col \in Range(timestampColumns)
        NotTs(col) == col \notin Range(timestampColumns)
    IN  SelectSeq(allColumns, IsTs) \o SelectSeq(allColumns, NotTs)

\* reorderColumns(allColumns, timestampColumns)
reorderColumns(allColumns, timestampColumns) ==
    LET NotTs(col) == col \notin Range(timestampColumns)
    IN  timestampColumns \o SelectSeq(allColumns, NotTs)

(***************************************************************************)
(* QueryEngine: filter, sort, paginate                                     *)
(***************************************************************************)

\* A variant of the predicate that keeps a record when some entry with a
\* pattern matches it, instead of every one.
PassesSomeFilter(log, filters) ==
    LET Active == { key \in DOMAIN filters : filters[key] # << >> }
    IN  \/ Active = {}
        \/ \E key \in Active :
              LET logValue == getNestedValue(log, key)
                  stringValue == IF Truthy(logValue)
                                 THEN ToLowerCase(JsString(logValue))
                                 ELSE << >>
              IN  Includes(stringValue, ToLowerCase(filters[key]))

\* The predicate of logs.filter(..) in processedLogs.  A filter set is a
\* function from column keys to patterns.
PassesFilters(log, filters) ==
    \A key \in DOMAIN filters :
        LET filterValue == ToLowerCase(filters[key])
        IN  \/ filterValue = << >>
            \/ LET logValue == getNestedValue(log, key)
                   stringValue == IF Truthy(logValue)
                                  THEN ToLowerCase(JsString(logValue))
                                  ELSE << >>
               IN  Includes(stringValue, filterValue)

FilterLogs(logs, filters) ==
    LET Keep(log) == PassesFilters(log, filters)
    IN  SelectSeq(logs, Keep)

NoSort == [key |-> JNull, direction |-> "null"]

\* getNestedValue(a, sortConfig.key) || ''
SortValue(log, key) ==
    LET value == getNestedValue(log, key)
    IN  IF Truthy(value) THEN value ELSE EmptyStr

Sign(n) == IF n < 0 THEN 0 - 1 ELSE IF n > 0 THEN 1 ELSE 0

\* The comparator handed to logs.sort(..), on the two values it compares: the
\* sign of its result.
CompareValues(aValue, bValue, direction) ==
    LET aNum == ToNumber(aValue)
        bNum == ToNumber(bValue)
        asc == direction = "ascending"
    IN  IF ~aNum.nan /\ ~bNum.nan
        THEN IF asc THEN Sign(aNum.n - bNum.n) ELSE Sign(bNum.n - aNum.n)
        ELSE LET aStr == JsString(aValue)
                 bStr == JsString(bValue)
             IN  IF StrLess(aStr, bStr) THEN (IF asc THEN 0 - 1 ELSE 1)
                 ELSE IF StrLess(bStr, aStr) THEN (IF asc THEN 1 ELSE 0 - 1)
                 ELSE 0

\* The comparator handed to logs.sort(..).
Compare(a, b, sortConfig) ==
    CompareValues(SortValue(a, Val(sortConfig.key)), SortValue(b, Val(sortConfig.key)),
                  sortConfig.direction)

\* Whether the comparator is a consistent comparison function for the elements
\* of logs, in the sense of ECMAScript's Array.prototype.sort.  It reads only
\* the sort values of the elements.
ConsistentComparator(logs, sortConfig) ==
    LET V == { SortValue(logs[i], Val(sortConfig.key)) : i \in DOMAIN logs }
        C(x, y) == CompareValues(x, y, sortConfig.direction)
    IN  /\ \A x \in V : C(x, x) = 0
        /\ \A x, y \in V : C(x, y) = 0 - C(y, x)
        /\ \A x, y, z \in V :
              /\ (C(x, y) = 0 /\ C(y, z) = 0) => C(x, z) = 0
              /\ (C(x, y) < 0 /\ C(y, z) < 0) => C(x, z) < 0
              /\ (C(x, y) > 0 /\ C(y, z) > 0) => C(x, z) > 0

\* A stable insertion: e goes after every element that does not compare after it.
RECURSIVE StableInsert(_, _, _)
StableInsert(sorted, e, sortConfig) ==
    IF sorted = << >> THEN << e >>
    ELSE IF Compare(sorted[Len(sorted)], e, sortConfig) <= 0
         THEN Append(sorted, e)
         ELSE Append(StableInsert(SubSeq(sorted, 1, Len(sorted) - 1), e, sortConfig),
                     sorted[Len(sorted)])

RECURSIVE StableSort(_, _)
StableSort(logs, sortConfig) ==
    IF logs = << >> THEN << >>
    ELSE StableInsert(StableSort(SubSeq(logs, 1, Len(logs) - 1), sortConfig),
                      logs[Len(logs)], sortConfig)

\* The results logs.sort(comparator) can have: the stable sort when the comparator
\* is consistent on the elements; any order of them otherwise (ECMAScript leaves
\* the order implementation-defined then).
SortOutcomes(logs, sortConfig) ==
    IF ConsistentComparator(logs, sortConfig)
    THEN { StableSort(logs, sortConfig) }
    ELSE { [ i \in DOMAIN logs |-> logs[p[i]] ] : p \in Permutations(DOMAIN logs) }

\* The values the memo processedLogs can take for its three dependencies.
ProcessOutcomes(logs, filters, sortConfig) ==
    LET filtered == FilterLogs(logs, filters)
    IN  IF Truthy(sortConfig.key) THEN SortOutcomes(filtered, sortConfig)
        ELSE { filtered }

itemsPerPage == 25

Min(a, b) == IF a < b THEN a ELSE b
Max(a, b) == IF a > b THEN a ELSE b

\* A variant of slice that clamps start to the last element.
SliceFromLastElement(seq, start, end) ==
    IF seq = << >> THEN << >>
    ELSE SubSeq(seq, Min(start + 1, Len(seq)), Min(end, Len(seq)))

\* Array.prototype.slice(start, end) for 0 <= start.
Slice(seq, start, end) == SubSeq(seq, start + 1, Min(end, Len(seq)))

\* A variant of paginatedLogs that takes the page number for the count of the
\* pages before it.
PaginatedLogsFromPageEnd(processed, page) ==
    LET startIndex == page * itemsPerPage
    IN  Slice(processed, startIndex, startIndex + itemsPerPage)

\* paginatedLogs
PaginatedLogs(processed, page) ==
    LET startIndex == (page - 1) * itemsPerPage
    IN  Slice(processed, startIndex, startIndex + itemsPerPage)

\* totalPages = Math.ceil(processedLogs.length / itemsPerPage)
TotalPages(processed) == (Len(processed) + itemsPerPage - 1) \div itemsPerPage


(***************************************************************************)
(* Files                                                                   *)
(***************************************************************************)

\* A line of a file is blank (its trim() is empty), or the JSON text of a value,
\* or no valid JSON.  JSON.parse is the library's: a line carries the value it
\* denotes.
BlankLine == << "blank", Undefined >>
InvalidLine == << "invalid", Undefined >>
JsonLine(value) == << "json", value >>

\* Whether .map(line => JSON.parse(line)) throws on the non-blank lines.
ParseThrows(text) == \E i \in DOMAIN text : text[i][1] = "invalid"

\* text.split('\n').filter(line => line.trim() !== '').map(line => JSON.parse(line))
ParsedLogs(text) ==
    LET NotBlank(line) == line[1] # "blank"
        kept == SelectSeq(text, NotBlank)
    IN  [ i \in DOMAIN kept |-> kept[i][2] ]

\* Keys of the records of the application model.
kTs == << "t", "s" >>
kN == << "n" >>
kV == << "v" >>

\* {"ts": "Ab", "n": 5}
RecA == JObj(kTs :> JStr(<< "A", "b" >>) @@ kN :> JNum(5))
\* {"ts": null, "n": {"v": "b"}}
RecB == JObj(kTs :> JNull @@ kN :> JObj(kV :> JStr(<< "b" >>)))
\* 7: a line that is a JSON number
RecC == JNum(7)

Lines == { BlankLine, InvalidLine, JsonLine(RecA), JsonLine(RecB), JsonLine(RecC) }

\* The longest generated text, in lines.
MaxLines == 2

\* A text with more records than one page holds.
BigText == [ i \in 1..(itemsPerPage + 1) |-> JsonLine(RecA) ]

Texts == UNION { [1..n -> Lines] : n \in 0..MaxLines } \cup { BigText }

FileNames == { << "f" >> }

\* The files a user can select or drop.
Files == [name : FileNames, text : Texts]

\* The patterns a user types into a filter input.
FilterInputs == { << >>, << "B" >> }

\* `Failed to parse ${file.name}. ...`
ParseErrorMessage(name) ==
    JStr(<< "F", "a", "i", "l", "e", "d", " ", "t", "o", " ",
            "p", "a", "r", "s", "e", " " >> \o name)

\* `Error reading file: ${reader.error}`
ReadErrorMessage ==
    JStr(<< "E", "r", "r", "o", "r", " ", "r", "e", "a", "d", "i", "n", "g", " ",
            "f", "i", "l", "e" >>)

(***************************************************************************)
(* The App component                                                       *)
(***************************************************************************)

VARIABLES
    allLogs,                  \* useState([])
    fileName,                 \* useState(null)
    isLoading,                \* useState(false)
    error,                    \* useState(null)
    logStructure,             \* useState({columns: [], timestampColumns: []})
    humanReadableTime,        \* useState(false)
    enabledTimestampColumns,  \* useState(new Set())
    filters,                  \* useState({})
    sortConfig,               \* useState({key: null, direction: null})
    currentPage,              \* useState(1)
    processedLogs,            \* the memo of the filtered and sorted logs
    pending,                  \* the effects scheduled by the last render
    readers,                  \* the FileReaders that are reading a file
    dateAccepts,              \* the legacy date strings the engine's Date parses
    lastEvent,                \* the last event of a file read (history)
    call,                     \* the pure function applied (function specifications)
    result                    \* its result

appVars == << allLogs, fileName, isLoading, error, logStructure, humanReadableTime,
              enabledTimestampColumns, filters, sortConfig, currentPage,
              processedLogs, pending, readers, dateAccepts, lastEvent >>

fnVars == << call, result >>

vars == << appVars, fnVars >>

EmptyStructure == [columns |-> << >>, timestampColumns |-> << >>]

\* {}: the filter set with no key.
EmptyFilters == << >>

NoCall == << "none" >>

\* The state of the component after its first render and effects.
AppInit ==
    /\ allLogs = << >>
    /\ fileName = JNull
    /\ isLoading = FALSE
    /\ error = JNull
    /\ logStructure = EmptyStructure
    /\ humanReadableTime = FALSE
    /\ enabledTimestampColumns = {}
    /\ filters = EmptyFilters
    /\ sortConfig = NoSort
    /\ currentPage = 1
    /\ processedLogs = << >>
    /\ pending = {}
    /\ readers = {}
    /\ dateAccepts \in SUBSET LegacyDateStrings
    /\ lastEvent = << "mount" >>

Init == AppInit /\ call = NoCall /\ result = NoCall

\* orderedColumns
orderedColumns == reorderColumns(logStructure.columns, logStructure.timestampColumns)

\* No effect is waiting: React runs the scheduled effects before it handles
\* another event.
Idle == pending = {}

\* {!isLoading && !fileName && <FileUploader .../>}
UploaderShown == ~isLoading /\ ~Truthy(fileName)

\* {fileName && !error && logStructure.columns.length > 0 && ...}
TableShown == Truthy(fileName) /\ ~Truthy(error) /\ Len(logStructure.columns) > 0

\* {fileName && !error && logStructure.columns.length === 0 && ...}
EmptySchemaNoticeShown ==
    Truthy(fileName) /\ ~Truthy(error) /\ Len(logStructure.columns) = 0

\* A variant of processFile that a file can be handed to whether or not the
\* uploader is rendered.
processFileAnyTime(file) ==
    /\ Idle
    /\ isLoading' = TRUE
    /\ error' = JNull
    /\ readers' = readers \cup {file}
    /\ lastEvent' = << "processFile", file >>
    /\ UNCHANGED << allLogs, fileName, logStructure, humanReadableTime,
                    enabledTimestampColumns, filters, sortConfig, currentPage,
                    processedLogs, pending, dateAccepts, fnVars >>

\* processFile(file), up to reader.readAsText(file).
processFile(file) ==
    /\ Idle
    /\ UploaderShown
    /\ isLoading' = TRUE
    /\ error' = JNull
    /\ readers' = readers \cup {file}
    /\ lastEvent' = << "processFile", file >>
    /\ UNCHANGED << allLogs, fileName, logStructure, humanReadableTime,
                    enabledTimestampColumns, filters, sortConfig, currentPage,
                    processedLogs, pending, dateAccepts, fnVars >>

\* A variant of handleFileUpload that clears the error whatever it is handed.
handleFileUploadClearsError(logs, name, err) ==
    /\ allLogs' = logs
    /\ fileName' = name
    /\ error' = JNull

\* handleFileUpload(logs, name), the new error given the one set before the call.
handleFileUpload(logs, name, err) ==
    /\ allLogs' = logs
    /\ fileName' = name
    /\ error' = IF Len(logs) > 0 THEN JNull ELSE err

\* reader.onload: parse, handleFileUpload, setIsLoading(false); then the render,
\* which recomputes the memo and schedules both effects.
readerOnload(file) ==
    /\ Idle
    /\ file \in readers
    /\ readers' = readers \ {file}
    /\ IF ParseThrows(file.text)
       THEN handleFileUpload(<< >>, JNull, ParseErrorMessage(file.name))
       ELSE handleFileUpload(ParsedLogs(file.text), JStr(file.name), error)
    /\ isLoading' = FALSE
    /\ processedLogs' \in ProcessOutcomes(allLogs', filters, sortConfig)
    /\ pending' = {"structure", "page"}
    /\ lastEvent' = << "onload", file >>
    /\ UNCHANGED << logStructure, humanReadableTime, enabledTimestampColumns,
                    filters, sortConfig, currentPage, dateAccepts, fnVars >>

\* A variant of reader.onerror that leaves the loading flag set.
readerOnerrorKeepsLoading(file) ==
    /\ Idle
    /\ file \in readers
    /\ readers' = readers \ {file}
    /\ error' = ReadErrorMessage
    /\ lastEvent' = << "onerror", file >>
    /\ UNCHANGED << allLogs, fileName, isLoading, logStructure, humanReadableTime,
                    enabledTimestampColumns, filters, sortConfig, currentPage,
                    processedLogs, pending, dateAccepts, fnVars >>

\* reader.onerror
readerOnerror(file) ==
    /\ Idle
    /\ file \in readers
    /\ readers' = readers \ {file}
    /\ error' = ReadErrorMessage
    /\ isLoading' = FALSE
    /\ lastEvent' = << "onerror", file >>
    /\ UNCHANGED << allLogs, fileName, logStructure, humanReadableTime,
                    enabledTimestampColumns, filters, sortConfig, currentPage,
                    processedLogs, pending, dateAccepts, fnVars >>

\* structure.timestampColumns[0] || structure.columns[0]
DefaultSortKey(structure) ==
    LET First(seq) == IF seq = << >> THEN Undefined ELSE JStr(seq[1])
    IN  IF Truthy(First(structure.timestampColumns))
        THEN First(structure.timestampColumns)
        ELSE First(structure.columns)

\* A variant of the effect that enables no timestamp column.
StructureEffectEnablesNone ==
    IF Len(allLogs) > 0
    THEN LET structure == analyzeLogStructure(allLogs, dateAccepts)
         IN  /\ logStructure' = structure
             /\ filters' = [ column \in Range(structure.columns) |-> << >> ]
             /\ enabledTimestampColumns' = {}
             /\ sortConfig' = IF Truthy(DefaultSortKey(structure))
                              THEN [key |-> DefaultSortKey(structure),
                                    direction |-> "descending"]
                              ELSE sortConfig
    ELSE /\ logStructure' = EmptyStructure
         /\ filters' = EmptyFilters
         /\ enabledTimestampColumns' = {}
         /\ sortConfig' = NoSort

\* useEffect(.., [allLogs]): the state it sets.
StructureEffect ==
    IF Len(allLogs) > 0
    THEN LET structure == analyzeLogStructure(allLogs, dateAccepts)
         IN  /\ logStructure' = structure
             /\ filters' = [ column \in Range(structure.columns) |-> << >> ]
             /\ enabledTimestampColumns' = Range(structure.timestampColumns)
             /\ sortConfig' = IF Truthy(DefaultSortKey(structure))
                              THEN [key |-> DefaultSortKey(structure),
                                    direction |-> "descending"]
                              ELSE sortConfig
    ELSE /\ logStructure' = EmptyStructure
         /\ filters' = EmptyFilters
         /\ enabledTimestampColumns' = {}
         /\ sortConfig' = NoSort

\* The scheduled effects run, in the order of their declaration, and the
\* component renders again: useEffect(.., [allLogs]) and
\* useEffect(() => setCurrentPage(1), [processedLogs]).
flushEffects ==
    /\ pending # {}
    /\ IF "structure" \in pending
       THEN /\ StructureEffect
            /\ processedLogs' \in ProcessOutcomes(allLogs, filters', sortConfig')
            /\ pending' = {"page"}
       ELSE /\ UNCHANGED << logStructure, filters, enabledTimestampColumns,
                            sortConfig, processedLogs >>
            /\ pending' = {}
    /\ currentPage' = IF "page" \in pending THEN 1 ELSE currentPage
    /\ UNCHANGED << allLogs, fileName, isLoading, error, humanReadableTime,
                    readers, dateAccepts, lastEvent, fnVars >>

\* A variant of the render that schedules no page effect.
RenderQueryKeepsPage ==
    /\ processedLogs' \in ProcessOutcomes(allLogs, filters', sortConfig')
    /\ pending' = {}

\* The render after filters or sortConfig changed: the memo is recomputed and
\* the page effect scheduled.
RenderQuery ==
    /\ processedLogs' \in ProcessOutcomes(allLogs, filters', sortConfig')
    /\ pending' = {"page"}

\* handleFilterChange(e), e.target one of the filter inputs.
handleFilterChange(name, value) ==
    /\ Idle
    /\ TableShown
    /\ name \in Range(orderedColumns)
    /\ filters' = [ key \in DOMAIN filters \cup {name} |->
                        IF key = name THEN value ELSE filters[key] ]
    /\ UNCHANGED << allLogs, fileName, isLoading, error, logStructure,
                    humanReadableTime, enabledTimestampColumns, sortConfig,
                    currentPage, readers, dateAccepts, lastEvent,
                    fnVars >>
    /\ RenderQuery

\* The filterValue of a cell: value !== undefined ? value : null
CellFilterValue(log, columnKey) ==
    LET value == getNestedValue(log, columnKey)
    IN  IF value # Undefined THEN value ELSE JNull

NotApplicable == JStr(<< "N", "/", "A" >>)

\* The values handleCellClick returns early on.
CellClickIgnored(value) ==
    \/ value = JNull
    \/ value = Undefined
    \/ value = NotApplicable
    \/ IsBlank(JsString(value))

\* handleCellClick(columnKey, value), on a cell of the page shown.
handleCellClick(i, columnKey) ==
    /\ Idle
    /\ TableShown
    /\ i \in DOMAIN PaginatedLogs(processedLogs, currentPage)
    /\ columnKey \in Range(orderedColumns)
    /\ LET value == CellFilterValue(PaginatedLogs(processedLogs, currentPage)[i],
                                    columnKey)
       IN  /\ ~CellClickIgnored(value)
           /\ filters' = [ key \in DOMAIN filters \cup {columnKey} |->
                               IF key = columnKey THEN JsString(value)
                               ELSE filters[key] ]
    /\ currentPage' = 1
    /\ UNCHANGED << allLogs, fileName, isLoading, error, logStructure,
                    humanReadableTime, enabledTimestampColumns, sortConfig,
                    readers, dateAccepts, lastEvent,
                    fnVars >>
    /\ RenderQuery

\* A variant of requestSort that always asks for the ascending direction.
requestSortAscendingOnly(key) ==
    /\ Idle
    /\ TableShown
    /\ key \in Range(orderedColumns)
    /\ sortConfig' = [key |-> JStr(key), direction |-> "ascending"]
    /\ UNCHANGED << allLogs, fileName, isLoading, error, logStructure,
                    humanReadableTime, enabledTimestampColumns, filters,
                    currentPage, readers, dateAccepts, lastEvent,
                    fnVars >>
    /\ RenderQuery

\* requestSort(key), key the column of a table header.
requestSort(key) ==
    /\ Idle
    /\ TableShown
    /\ key \in Range(orderedColumns)
    /\ sortConfig' =
          [key |-> JStr(key),
           direction |-> IF sortConfig.key = JStr(key)
                            /\ sortConfig.direction = "ascending"
                         THEN "descending" ELSE "ascending"]
    /\ UNCHANGED << allLogs, fileName, isLoading, error, logStructure,
                    humanReadableTime, enabledTimestampColumns, filters,
                    currentPage, readers, dateAccepts, lastEvent,
                    fnVars >>
    /\ RenderQuery

\* {logStructure.timestampColumns.length > 0 && ...}: the timestamp controls.
TimestampControlsShown == TableShown /\ Len(logStructure.timestampColumns) > 0

\* setHumanReadableTime(e.target.checked)
setHumanReadableTime ==
    /\ Idle
    /\ TimestampControlsShown
    /\ humanReadableTime' = ~humanReadableTime
    /\ UNCHANGED << allLogs, fileName, isLoading, error, logStructure,
                    enabledTimestampColumns, filters, sortConfig, currentPage,
                    processedLogs, pending, readers, dateAccepts, lastEvent,
                    fnVars >>

\* handleTimestampColumnToggle(columnKey), on one of the column check boxes.
handleTimestampColumnToggle(columnKey) ==
    /\ Idle
    /\ TimestampControlsShown
    /\ humanReadableTime
    /\ columnKey \in Range(logStructure.timestampColumns)
    /\ enabledTimestampColumns' =
          IF columnKey \in enabledTimestampColumns
          THEN enabledTimestampColumns \ {columnKey}
          ELSE enabledTimestampColumns \cup {columnKey}
    /\ UNCHANGED << allLogs, fileName, isLoading, error, logStructure,
                    humanReadableTime, filters, sortConfig, currentPage,
                    processedLogs, pending, readers, dateAccepts, lastEvent,
                    fnVars >>

\* clearData, the "Upload New File" button.
clearData ==
    /\ Idle
    /\ Truthy(fileName)
    /\ allLogs' = << >>
    /\ fileName' = JNull
    /\ error' = JNull
    /\ filters' = EmptyFilters
    /\ logStructure' = EmptyStructure
    /\ enabledTimestampColumns' = {}
    /\ sortConfig' = NoSort
    /\ processedLogs' \in ProcessOutcomes(allLogs', filters', sortConfig')
    /\ pending' = {"structure", "page"}
    /\ UNCHANGED << isLoading, humanReadableTime, currentPage, readers, dateAccepts, lastEvent,
                    fnVars >>

\* A variant of clearAllFilters that empties the filter set, as clearData does.
clearAllFiltersDropsKeys ==
    /\ Idle
    /\ TableShown
    /\ filters' = EmptyFilters
    /\ currentPage' = 1
    /\ lastEvent' = lastEvent
    /\ UNCHANGED << allLogs, fileName, isLoading, error, logStructure,
                    humanReadableTime, enabledTimestampColumns, sortConfig,
                    readers, dateAccepts, fnVars >>
    /\ RenderQuery

\* clearAllFilters
clearAllFilters ==
    /\ Idle
    /\ TableShown
    /\ filters' = [ column \in Range(logStructure.columns) |-> << >> ]
    /\ currentPage' = 1
    /\ UNCHANGED << allLogs, fileName, isLoading, error, logStructure,
                    humanReadableTime, enabledTimestampColumns, sortConfig,
                    readers, dateAccepts, lastEvent,
                    fnVars >>
    /\ RenderQuery

\* The Previous button: setCurrentPage(p => Math.max(1, p - 1))
previousPage ==
    /\ Idle
    /\ TableShown
    /\ currentPage # 1
    /\ currentPage' = Max(1, currentPage - 1)
    /\ UNCHANGED << allLogs, fileName, isLoading, error, logStructure,
                    humanReadableTime, enabledTimestampColumns, filters,
                    sortConfig, processedLogs, pending, readers, dateAccepts, lastEvent,
                    fnVars >>

\* The Next button: setCurrentPage(p => Math.min(totalPages, p + 1))
nextPage ==
    /\ Idle
    /\ TableShown
    /\ ~(currentPage = TotalPages(processedLogs) \/ TotalPages(processedLogs) = 0)
    /\ currentPage' = Min(TotalPages(processedLogs), currentPage + 1)
    /\ UNCHANGED << allLogs, fileName, isLoading, error, logStructure,
                    humanReadableTime, enabledTimestampColumns, filters,
                    sortConfig, processedLogs, pending, readers, dateAccepts, lastEvent,
                    fnVars >>

Next ==
    \/ \E file \in Files : processFile(file)
    \/ \E file \in Files : readerOnload(file)
    \/ \E file \in Files : readerOnerror(file)
    \/ flushEffects
    \/ \E name \in Range(orderedColumns), value \in FilterInputs :
          handleFilterChange(name, value)
    \/ \E i \in 1..itemsPerPage, columnKey \in Range(orderedColumns) :
          handleCellClick(i, columnKey)
    \/ \E key \in Range(orderedColumns) : requestSort(key)
    \/ setHumanReadableTime
    \/ \E columnKey \in Range(orderedColumns) : handleTimestampColumnToggle(columnKey)
    \/ clearData
    \/ clearAllFilters
    \/ previousPage
    \/ nextPage

Spec == Init /\ [][Next]_vars

(***************************************************************************)
(* The functions of the query engine, each called on its own: call holds   *)
(* the arguments and result the value returned.  The component stays as    *)
(* mounted.                                                                *)
(***************************************************************************)

Returned(value) == << "returned", value >>

Called(name) == call[1] = name /\ result # NoCall

kU == << "u" >>
kK == << "k" >>
kI == << "i" >>
kA == << "a" >>
kB == << "b" >>
kC == << "c" >>
kD == << "d" >>

\* ---- the filter step of processedLogs ----

\* {"u": u, "n": n}, a field left out when its value is undefined.
FilterRecord(u, n) ==
    JObj([ key \in { k \in {kU, kN} : (IF k = kU THEN u ELSE n) # Undefined }
             |-> IF key = kU THEN u ELSE n ])

FilterRecords ==
    { FilterRecord(u, n) :
        u \in { Undefined, JStr(<< "a", "b", "c" >>), JStr(<< "X", "Y", "Z" >>) },
        n \in { Undefined, JNum(0), JBool(FALSE), JNum(10) } }

MaxFilterLogs == 2

FilterPatterns == { << >>, << "A" >>, << "0" >> }

\* A record collection and a filter set over its columns.
FilterCalls ==
    UNION { { << "filter", logs, fs >> :
                fs \in [ Range(extractAllKeys(logs)) -> FilterPatterns ] } :
            logs \in UNION { [1..n -> FilterRecords] : n \in 0..MaxFilterLogs } }

InitFilter == AppInit /\ call \in FilterCalls /\ result = NoCall

\* allLogs.filter(..) of processedLogs
callFilter ==
    /\ call[1] = "filter"
    /\ result = NoCall
    /\ result' = Returned(FilterLogs(call[2], call[3]))
    /\ UNCHANGED << call, appVars >>

NextFilter == callFilter

SpecFilter == InitFilter /\ [][NextFilter]_vars

\* ---- processedLogs: filter, then sort ----

\* {"k": value, "i": i}, the field k left out when its value is undefined.
SortRecord(value, i) ==
    JObj([ key \in (IF value = Undefined THEN {kI} ELSE {kK, kI})
             |-> IF key = kK THEN value ELSE JNum(i) ])

SortKeyValues ==
    { Undefined, JStr(<< "2" >>), JStr(<< "1", "0" >>), JStr(<< "1", "a" >>) }

SortRecords(values) == [ i \in DOMAIN values |-> SortRecord(values[i], i) ]

MaxSortLogs == 3

\* Four records whose values of k are "2", "10", "1a" and "2".
TieAmongMixed ==
    SortRecords(<< JStr(<< "2" >>), JStr(<< "1", "0" >>), JStr(<< "1", "a" >>),
                   JStr(<< "2" >>) >>)

SortLogs ==
    { SortRecords(values) :
        values \in UNION { [1..n -> SortKeyValues] : n \in 0..MaxSortLogs } }
    \cup { TieAmongMixed }

SortConfigs ==
    { NoSort } \cup { [key |-> JStr(kK), direction |-> d] : d \in {"ascending", "descending"} }

SortFilters(logs) ==
    LET columns == Range(extractAllKeys(logs))
    IN  { [ c \in columns |-> << >> ] } \cup
        { [ c \in columns |-> IF c = kK THEN << "1" >> ELSE << >> ] }

QueryCalls ==
    UNION { { << "processedLogs", logs, fs, sc >> : fs \in SortFilters(logs), sc \in SortConfigs } :
            logs \in SortLogs }

InitQuery == AppInit /\ call \in QueryCalls /\ result = NoCall

\* processedLogs for given allLogs, filters and sortConfig
callProcessedLogs ==
    /\ call[1] = "processedLogs"
    /\ result = NoCall
    /\ \E processed \in ProcessOutcomes(call[2], call[3], call[4]) :
          result' = Returned(processed)
    /\ UNCHANGED << call, appVars >>

NextQuery == callProcessedLogs

SpecQuery == InitQuery /\ [][NextQuery]_vars

\* ---- extractAllKeys ----

ColumnRecords ==
    { JObj(kA :> JObj(kB :> JNum(1))),                                  \* {"a": {"b": 1}}
      JObj(kA :> JObj(<< "b", ".", "c" >> :> JNum(1))),                 \* {"a": {"b.c": 1}}
      JObj(<< "a", ".", "b" >> :> JNull @@ kA :> JObj(kB :> JNum(1))),  \* {"a.b": null, "a": {"b": 1}}
      JObj(<< "a", ".", "b" >> :> JStr(<< "x" >>)),                     \* {"a.b": "x"}
      JObj(kA :> EmptyStr),                                             \* {"a": ""}
      JObj(kA :> JArr(<< JNum(1) >>)),                                  \* {"a": [1]}
      JNum(7),                                                          \* 7
      JObj(kA :> JObj(kB :> JObj(kC :> JObj(kD :> JNum(1))))),          \* {"a": {"b": {"c": {"d": 1}}}}
      JObj(kB :> JStr(<< "x" >>) @@ kA :> JNum(0)),                     \* {"b": "x", "a": 0}
      JObj(kA :> JObj(kB :> JNull)) }                                   \* {"a": {"b": null}}

MaxColumnLogs == 2

ColumnCalls ==
    { << "extractAllKeys", logs >> :
        logs \in UNION { [1..n -> ColumnRecords] : n \in 0..MaxColumnLogs } }

InitColumns == AppInit /\ call \in ColumnCalls /\ result = NoCall

\* extractAllKeys(objects)
callExtractAllKeys ==
    /\ call[1] = "extractAllKeys"
    /\ result = NoCall
    /\ result' = Returned(extractAllKeys(call[2]))
    /\ UNCHANGED << call, appVars >>

NextColumns == callExtractAllKeys

SpecColumns == InitColumns /\ [][NextColumns]_vars

\* ---- getNestedValue ----

kIdOrigH == << "i", "d", ".", "o", "r", "i", "g", "_", "h" >>
kId == << "i", "d" >>
kOrigH == << "o", "r", "i", "g", "_", "h" >>
Address == JStr(<< "1", "0", ".", "0", ".", "0", ".", "1" >>)

ResolveRecords ==
    { JObj(kIdOrigH :> Address),                                        \* {"id.orig_h": "10.0.0.1"}
      JObj(kId :> JObj(kOrigH :> Address)),                             \* {"id": {"orig_h": "10.0.0.1"}}
      JObj(kA :> JArr(<< JNum(1), JNum(2) >>)),                         \* {"a": [1, 2]}
      JObj(kA :> JStr(<< "x", "y" >>)),                                 \* {"a": "xy"}
      JObj(kA :> JNum(5)),                                              \* {"a": 5}
      JObj(kA :> JObj(kB :> JNull)),                                    \* {"a": {"b": null}}
      JObj(<< "a", ".", "b" >> :> JNum(2) @@ kA :> JObj(kB :> JNum(1))),\* {"a.b": 2, "a": {"b": 1}}
      JObj(kA :> JObj(kB :> JObj(kC :> JNum(0)))) }                     \* {"a": {"b": {"c": 0}}}

ResolvePaths ==
    { kIdOrigH, kId, kA, << "a", ".", "0" >>, << "a", ".", "l", "e", "n", "g", "t", "h" >>,
      << "a", ".", "b" >>, << "a", ".", "b", ".", "c" >>, << "a", ".", "x" >> }

ResolveCalls == { << "getNestedValue", obj, path >> : obj \in ResolveRecords, path \in ResolvePaths }

InitResolve == AppInit /\ call \in ResolveCalls /\ result = NoCall

\* getNestedValue(obj, path)
callGetNestedValue ==
    /\ call[1] = "getNestedValue"
    /\ result = NoCall
    /\ result' = Returned(getNestedValue(call[2], call[3]))
    /\ UNCHANGED << call, appVars >>

NextResolve == callGetNestedValue

SpecResolve == InitResolve /\ [][NextResolve]_vars

\* ---- paginatedLogs and totalPages ----

MaxItems == 60

PaginateCalls == { << "paginate", [ i \in 1..n |-> JNum(i) ] >> : n \in 0..MaxItems }

InitPaginate == AppInit /\ call \in PaginateCalls /\ result = NoCall

\* totalPages, and paginatedLogs for each currentPage in 1..totalPages
callPaginatedLogs ==
    /\ call[1] = "paginate"
    /\ result = NoCall
    /\ result' = << "returned",
                    [ page \in 1..TotalPages(call[2]) |-> PaginatedLogs(call[2], page) ],
                    TotalPages(call[2]) >>
    /\ UNCHANGED << call, appVars >>

NextPaginate == callPaginatedLogs

SpecPaginate == InitPaginate /\ [][NextPaginate]_vars

(***************************************************************************)
(* Properties of the App component                                         *)
(***************************************************************************)

\* A text holds a non-blank line that is no valid JSON.
HasInvalidLine(text) == \E i \in DOMAIN text : text[i] = InvalidLine

HasJsonLine(text) == \E i \in DOMAIN text : text[i][1] = "json"

\* The last file read has ended in reader.onload on a text with an invalid line.
LoadedInvalidText == lastEvent[1] = "onload" /\ HasInvalidLine(lastEvent[2].text)

\* C1: a load whose text holds a non-blank line that is no valid JSON, even
\* among valid lines, ends with the error set and naming the file, no record,
\* no file name and the loading flag cleared; once its effects have run, the
\* columns, the timestamp columns and the filter set are empty and no sort key
\* is set.
C1_ParseFailureKeepsNothing ==
    LoadedInvalidText =>
        /\ error = ParseErrorMessage(lastEvent[2].name)
        /\ Truthy(error)
        /\ allLogs = << >>
        /\ fileName = JNull
        /\ ~isLoading
        /\ Idle => /\ logStructure.columns = << >>
                   /\ logStructure.timestampColumns = << >>
                   /\ filters = EmptyFilters
                   /\ sortConfig.key = JNull

\* C1's case: a text with a valid and an invalid line was loaded and the effects
\* have run.
C1_Witness ==
    LoadedInvalidText /\ HasJsonLine(lastEvent[2].text) /\ Idle /\ Truthy(error)

\* C8: in every reachable state the timestamp columns are among the columns.
C8_TimestampColumnsAreColumns ==
    Range(logStructure.timestampColumns) \subseteq Range(logStructure.columns)

\* C8's case: after edits of a loaded file, some but not all columns are
\* timestamp columns.
C8_Witness ==
    /\ Idle
    /\ logStructure.timestampColumns # << >>
    /\ Range(logStructure.columns) \ Range(logStructure.timestampColumns) # {}
    /\ sortConfig.direction = "ascending"
    /\ \E key \in DOMAIN filters : filters[key] # << >>

\* C9: the keys of the filter set are exactly the columns in every state, and a
\* step that recomputes the schema leaves one entry with the empty pattern for
\* each column.
C9_FilterKeysAreColumns ==
    /\ [](DOMAIN filters = Range(logStructure.columns))
    /\ [][ "structure" \in pending =>
             filters' = [ column \in Range(logStructure'.columns) |-> << >> ] ]_vars

\* C9's case: a filter of a loaded file holds a pattern that a cell click set
\* (no input types it), beside the columns of the schema.
C9_Witness ==
    /\ Idle
    /\ Len(logStructure.columns) > 1
    /\ \E key \in DOMAIN filters : filters[key] \notin FilterInputs

\* The schema, filter keys, sort key and enabled timestamp columns that belong
\* to a record collection.
DerivedFrom(logs) ==
    LET structure == analyzeLogStructure(logs, dateAccepts)
    IN  /\ logStructure = structure
        /\ DOMAIN filters = Range(structure.columns)
        /\ enabledTimestampColumns \subseteq Range(structure.timestampColumns)
        /\ IF Truthy(sortConfig.key)
           THEN Val(sortConfig.key) \in Range(structure.columns)
           ELSE ~Truthy(DefaultSortKey(structure))

\* C10: loading is an atomic replace-then-recompute: in every state the schema,
\* the filter set, the sort order and the enabled timestamp columns are those
\* derived from the current record collection.
C10_AtomicReplaceRecompute == DerivedFrom(allLogs)

(***************************************************************************)
(* Properties of the functions of the query engine                         *)
(***************************************************************************)

\* The string form of a resolved value: the empty string only for undefined.
TextOf(value) == IF value = Undefined THEN << >> ELSE JsString(value)

C2_Passes(log, fs) ==
    \A key \in DOMAIN fs :
        fs[key] # << >> =>
            Includes(ToLowerCase(TextOf(getNestedValue(log, key))), ToLowerCase(fs[key]))

\* C2: the filter step keeps exactly the records that, for every filter entry
\* with a non-empty pattern, hold the lowercased pattern in the lowercased
\* string form of the value resolved at the entry's path (the empty string only
\* for undefined), the values 0 and false included.
C2_FilterIsConjunctionOfSubstrings ==
    Called("filter") =>
        LET Keep(log) == C2_Passes(log, call[3])
        IN  result[2] = SelectSeq(call[2], Keep)

\* The value a record is sorted by: the resolved one, the empty string when
\* there is none.
C3_SortKeyValue(log, key) ==
    LET value == getNestedValue(log, key)
    IN  IF value = Undefined THEN EmptyStr ELSE value

\* x compares strictly after y: by number when both coerce to numbers, as
\* strings otherwise, the sign reversed for descending.
C3_After(x, y, direction) ==
    LET xNum == ToNumber(x)
        yNum == ToNumber(y)
        after == IF ~xNum.nan /\ ~yNum.nan THEN xNum.n > yNum.n
                 ELSE StrLess(JsString(y), JsString(x))
        before == IF ~xNum.nan /\ ~yNum.nan THEN xNum.n < yNum.n
                  ELSE StrLess(JsString(x), JsString(y))
    IN  IF direction = "descending" THEN before ELSE after

\* C3: with a sort key, the sorted view is a permutation of the filtered
\* records in which no record placed earlier compares strictly after one placed
\* later; without a sort key it is the filtered records in their input order.
C3_SortedViewIsOrdered ==
    Called("processedLogs") =>
        LET filtered == FilterLogs(call[2], call[3])
            sc == call[4]
            out == result[2]
        IN  IF Truthy(sc.key)
            THEN /\ Len(out) = Len(filtered)
                 /\ Range(out) = Range(filtered)
                 /\ \A i, j \in DOMAIN out :
                       i < j => ~C3_After(C3_SortKeyValue(out[i], Val(sc.key)),
                                          C3_SortKeyValue(out[j], Val(sc.key)),
                                          sc.direction)
            ELSE out = filtered

\* C4: sorting is stable: two records with equal values of the sort key keep in
\* the output the relative order they have in the input, in both directions.
C4_SortIsStable ==
    (Called("processedLogs") /\ Truthy(call[4].key)) =>
        LET filtered == FilterLogs(call[2], call[3])
            out == result[2]
            key == Val(call[4].key)
            Position(log) == CHOOSE p \in DOMAIN out : out[p] = log
        IN  \A i, j \in DOMAIN filtered :
               (i < j /\ getNestedValue(filtered[i], key) = getNestedValue(filtered[j], key))
                   => Position(filtered[i]) < Position(filtered[j])

\* C5: for a non-empty record collection extractAllKeys returns a sorted list
\* without duplicates, each path of which getNestedValue resolves, in some
\* record of the collection, to a value that is not null, undefined or empty.
C5_ColumnsResolveToValues ==
    (Called("extractAllKeys") /\ call[2] # << >>) =>
        LET columns == result[2]
        IN  /\ \A i, j \in DOMAIN columns : i < j => StrLess(columns[i], columns[j])
            /\ \A i \in DOMAIN columns :
                  \E r \in DOMAIN call[2] : Meaningful(getNestedValue(call[2][r], columns[i]))

\* The traversal of the segments through nested mappings only.
RECURSIVE C6_Traverse(_, _)
C6_Traverse(current, segs) ==
    IF segs = << >> THEN current
    ELSE IF ~IsPlainObject(current) THEN Undefined
    ELSE IF Head(segs) \notin DOMAIN Val(current) THEN Undefined
    ELSE C6_Traverse(Val(current)[Head(segs)], Tail(segs))

\* C6: getNestedValue returns record[path] when that literal key is defined;
\* otherwise it follows the segments of the path through nested mappings and
\* returns undefined once a segment is missing or the current value is not a
\* mapping (an array, a string, a number).
C6_ResolveThroughMappingsOnly ==
    Called("getNestedValue") =>
        LET obj == call[2]
            path == call[3]
        IN  result[2] = IF IsPlainObject(obj) /\ path \in DOMAIN Val(obj)
                        THEN Val(obj)[path]
                        ELSE C6_Traverse(obj, SplitDots(path))

RECURSIVE Concat(_)
Concat(pages) ==
    IF pages = << >> THEN << >>
    ELSE Concat(SubSeq(pages, 1, Len(pages) - 1)) \o pages[Len(pages)]

\* C7: totalPages is the ceiling of length / itemsPerPage (0 for length 0), the
\* pages 1..totalPages put one after the other are the whole sequence, and each
\* page but the last holds exactly itemsPerPage items.
C7_PagesCoverExactlyOnce ==
    Called("paginate") =>
        LET seq == call[2]
            pages == result[2]
            total == result[3]
        IN  /\ total * itemsPerPage >= Len(seq)
            /\ (total - 1) * itemsPerPage < Len(seq)
            /\ Len(seq) = 0 => total = 0
            /\ Len(pages) = total
            /\ Concat(pages) = seq
            /\ \A page \in 1..(total - 1) : Len(pages[page]) = itemsPerPage

\* C7's case: a sequence that takes three pages, the last one not full.
C7_Witness ==
    /\ Called("paginate")
    /\ result[3] = 3
    /\ Len(result[2][3]) \in 1..(itemsPerPage - 1)

(***************************************************************************)
(* The filter step under one more constraint                               *)
(***************************************************************************)

\* The filter set with the entry of key set to pattern.
WithEntry(fs, key, pattern) ==
    [ k \in DOMAIN fs \cup {key} |-> IF k = key THEN pattern ELSE fs[k] ]

\* A record collection, a filter set over its columns, and one of its entries
\* with the empty pattern together with the pattern it is set to.
NarrowCalls ==
    UNION { { << "narrow", c[2], c[3], key, pattern >> :
                key \in { k \in DOMAIN c[3] : c[3][k] = << >> },
                pattern \in FilterPatterns \ { << >> } } :
            c \in FilterCalls }

InitNarrow == AppInit /\ call \in NarrowCalls /\ result = NoCall

\* allLogs.filter(..) of processedLogs, before and after setFilters puts the
\* pattern into the entry
callFilterNarrowed ==
    /\ call[1] = "narrow"
    /\ result = NoCall
    /\ result' = << "returned",
                    FilterLogs(call[2], call[3]),
                    FilterLogs(call[2], WithEntry(call[3], call[4], call[5])) >>
    /\ UNCHANGED << call, appVars >>

NextNarrow == callFilterNarrowed

SpecNarrow == InitNarrow /\ [][NextNarrow]_vars

\* sub is seq with some of its elements left out.
RECURSIVE IsSubsequence(_, _)
IsSubsequence(sub, seq) ==
    IF sub = << >> THEN TRUE
    ELSE IF seq = << >> THEN FALSE
    ELSE IF Head(sub) = Head(seq) THEN IsSubsequence(Tail(sub), Tail(seq))
    ELSE IsSubsequence(sub, Tail(seq))

\* C11: filtering is monotonic: setting one more entry of the filter set to a
\* non-empty pattern never gives more records, and the new result is a
\* sub-sequence of the old one.
C11_FilteringIsMonotonic ==
    Called("narrow") =>
        /\ Len(result[3]) <= Len(result[2])
        /\ IsSubsequence(result[3], result[2])

\* C11's case: a filter set that already holds a pattern is given another one,
\* which leaves out some of the records kept so far, not all.
C11_Witness ==
    /\ Called("narrow")
    /\ \E k \in DOMAIN call[3] : call[3][k] # << >>
    /\ result[3] # << >>
    /\ Len(result[3]) < Len(result[2])

(***************************************************************************)
(* paginatedLogs for a page number within or beyond the pages              *)
(***************************************************************************)

\* How far beyond totalPages the page numbers go.
PagesBeyond == 2

PageCalls ==
    UNION { { << "paginatedLogs", c[2], page >> :
                page \in 1..(TotalPages(c[2]) + PagesBeyond) } :
            c \in PaginateCalls }

InitPage == AppInit /\ call \in PageCalls /\ result = NoCall

\* paginatedLogs for given processedLogs and currentPage
callPage ==
    /\ call[1] = "paginatedLogs"
    /\ result = NoCall
    /\ result' = Returned(PaginatedLogs(call[2], call[3]))
    /\ UNCHANGED << call, appVars >>

NextPage == callPage

SpecPage == InitPage /\ [][NextPage]_vars

\* C12: a page number beyond totalPages, any page of an empty sequence
\* included, gives the empty slice as a value, and computing a page leaves
\* the records, the filters and the sort order as they are.
C12_PageBeyondIsEmpty ==
    /\ [](Called("paginatedLogs") =>
            /\ result[1] = "returned"
            /\ call[3] > TotalPages(call[2]) => result[2] = << >>)
    /\ [][ result' # result => UNCHANGED << allLogs, filters, sortConfig, processedLogs >> ]_vars

\* C12's case: a page beyond the last one of a sequence of more than a page.
C12_Witness ==
    /\ Called("paginatedLogs")
    /\ Len(call[2]) > itemsPerPage
    /\ call[3] > TotalPages(call[2])
    /\ result[2] = << >>

(***************************************************************************)
(* TimeParser: parseTimestamp                                              *)
(***************************************************************************)

\* A number beyond the integers of the model, by its decimal digits (no
\* leading zero).  The numbers of this section stay below 2^53, where the
\* arithmetic of JavaScript numbers is exact.
JBig(digits) == << "bignumber", digits >>

IsNumber(x) == Tag(x) \in { "number", "bignumber" }

\* The decimal digits of a non-negative integer number.
DigitsOf(x) == IF Tag(x) = "bignumber" THEN Val(x) ELSE NatToStr(Val(x))

\* a > b for two numbers given by their digits.
DigitsGreater(a, b) ==
    \/ Len(a) > Len(b)
    \/ /\ Len(a) = Len(b)
       /\ \E i \in DOMAIN a :
             /\ DigitVal(a[i]) > DigitVal(b[i])
             /\ \A j \in 1..(i - 1) : a[j] = b[j]

\* parseInt(str) of a string of digits: its digits without the leading zeros.
RECURSIVE ParseIntDigits(_)
ParseIntDigits(str) ==
    IF Len(str) > 1 /\ Head(str) = "0" THEN ParseIntDigits(Tail(str)) ELSE str

\* n * 1000
Times1000(digits) ==
    IF digits = << "0" >> THEN digits ELSE digits \o << "0", "0", "0" >>

\* 1e12
Digits1e12 == << "1", "0", "0", "0", "0", "0", "0", "0", "0", "0", "0", "0", "0" >>

\* 8.64e15, the largest time value of a Date, in milliseconds.
DigitsMaxTime ==
    << "8", "6", "4", "0", "0", "0", "0", "0", "0", "0", "0", "0", "0", "0", "0", "0" >>

InvalidDate == << "date", << "NaN" >> >>

\* new Date(ms): the instant ms milliseconds after the epoch.
DateOfMillis(digits) ==
    IF DigitsGreater(digits, DigitsMaxTime) THEN InvalidDate ELSE << "date", digits >>

\* new Date(str) and new Date(parseFloat(str) * 1000): the Date the engine
\* makes of the string.
DateOfString(str) == << "date", << "parsed", str >> >>

\* /^\d{10}\.\d+$/
IsDecimalSeconds(str) ==
    /\ Len(str) > 11
    /\ AllDigits(SubSeq(str, 1, 10))
    /\ str[11] = "."
    /\ AllDigits(SubSeq(str, 12, Len(str)))

\* parseTimestamp(timestamp)
parseTimestamp(timestamp, accepts) ==
    IF (IF Tag(timestamp) = "bignumber" THEN Val(timestamp) = << "0" >>
        ELSE ~Truthy(timestamp))
    THEN JNull
    ELSE IF IsNumber(timestamp)
    THEN IF DigitsGreater(DigitsOf(timestamp), Digits1e12)
         THEN DateOfMillis(DigitsOf(timestamp))
         ELSE DateOfMillis(Times1000(DigitsOf(timestamp)))
    ELSE LET str == JsString(timestamp)
         IN  IF Len(str) = 10 /\ AllDigits(str)
             THEN DateOfMillis(Times1000(ParseIntDigits(str)))
             ELSE IF IsUnixMillis(str) THEN DateOfMillis(ParseIntDigits(str))
             ELSE IF IsDecimalSeconds(str) THEN DateOfString(str)
             ELSE IF IsIsoPrefix(str) THEN DateOfString(str)
             ELSE IF str \in accepts THEN DateOfString(str)
             ELSE JNull

Zeros(n) == [ i \in 1..n |-> "0" ]

\* Ten-digit numbers of seconds: two leading digits, then zeros.
SecondsDigits ==
    { << DigitChars[a], DigitChars[b] >> \o Zeros(8) : a \in 2..10, b \in 1..10 }

\* Thirteen-digit numbers of milliseconds.
MillisDigits ==
    { Times1000(d) : d \in SecondsDigits } \cup
    { << "1", "7" >> \o Zeros(8) \o << "1", "2", "3" >> }

TimeValues ==
    { JBig(d) : d \in SecondsDigits \cup MillisDigits } \cup
    { JStr(d) : d \in SecondsDigits \cup MillisDigits } \cup
    { JNull, JNum(0), JNum(5), JStr(<< "5" >>),
      JStr(<< "1", "7" >> \o Zeros(8) \o << ".", "5" >>),
      JStr(<< "2", "0", "2", "3", "-", "0", "1", "-", "0", "1", "T",
              "0", "0", ":", "0", "0", ":", "0", "0", "Z" >>) }

TimeCalls == { << "parseTimestamp", value >> : value \in TimeValues }

InitTime == AppInit /\ call \in TimeCalls /\ result = NoCall

\* parseTimestamp(timestamp)
callParseTimestamp ==
    /\ call[1] = "parseTimestamp"
    /\ result = NoCall
    /\ result' = Returned(parseTimestamp(call[2], dateAccepts))
    /\ UNCHANGED << call, appVars >>

NextTime == callParseTimestamp

SpecTime == InitTime /\ [][NextTime]_vars

\* A value of exactly n digits, as a number or as a string of digits.
HasDigits(value, n) ==
    \/ Tag(value) = "bignumber" /\ Len(Val(value)) = n
    \/ Tag(value) = "string" /\ Len(Val(value)) = n /\ AllDigits(Val(value))
          /\ Head(Val(value)) # "0"

\* The value of the same kind with the digits d.
SameKind(value, d) == IF Tag(value) = "bignumber" THEN JBig(d) ELSE JStr(d)

\* C13: a value of exactly 10 digits is taken for Unix seconds and one of
\* exactly 13 digits for Unix milliseconds, as a number and as a string of
\* digits alike: a 10-digit s parses to the instant of s * 1000, and a 10- or
\* 13-digit number parses to the instant of its decimal string.
C13_SecondsAndMillisAgree ==
    Called("parseTimestamp") =>
        /\ HasDigits(call[2], 10) =>
              result[2] = parseTimestamp(SameKind(call[2], Times1000(Val(call[2]))),
                                         dateAccepts)
        /\ (Tag(call[2]) = "bignumber" /\ (HasDigits(call[2], 10) \/ HasDigits(call[2], 13))) =>
              result[2] = parseTimestamp(JStr(Val(call[2])), dateAccepts)

(***************************************************************************)
(* Properties of the App component: reads, toggles, pages, sort order      *)
(***************************************************************************)

\* C14: when the read of a file fails, the error is set and the loading flag
\* cleared, and the records, the file name, the schema, the filter set, the
\* sort order and the current page stay as they are.
C14_ReadFailureOnlyReports ==
    [][ (\E file \in Files : readerOnerror(file)) =>
            /\ Truthy(error')
            /\ ~isLoading'
            /\ UNCHANGED << allLogs, fileName, logStructure, filters, sortConfig,
                            currentPage >> ]_vars

\* C14's case: the read of a file has failed, the error is shown and the
\* uploader is back.
C14_Witness ==
    /\ lastEvent[1] = "onerror"
    /\ Truthy(error)
    /\ UploaderShown
    /\ readers = {}

(***************************************************************************)
(* extractAllKeys on nested records without dotted keys                    *)
(***************************************************************************)

kE == << "e" >>
kF == << "f" >>

NestKeys == << kA, kB, kC, kD, kE, kF >>

\* The deepest nesting of the records, in keys.
MaxDepth == 5

\* {"a": {"b": .. 1 ..}}: the keys from the i-th to the depth-th, nested.
RECURSIVE Nested(_, _)
Nested(i, depth) ==
    IF i > depth THEN JNum(1) ELSE JObj(NestKeys[i] :> Nested(i + 1, depth))

NestedRecords ==
    { Nested(1, depth) : depth \in 1..MaxDepth } \cup
    { JObj(kA :> JObj(kB :> JArr(<< Nested(3, 3) >>))),      \* {"a": {"b": [{"c": 1}]}}
      JObj(kB :> JObj(kA :> EmptyStr)),                      \* {"b": {"a": ""}}
      JObj(kA :> JObj(kB :> JNum(1) @@ kC :> Nested(4, 5))) }\* {"a": {"b": 1, "c": {"d": {"e": 1}}}}

MaxNestedLogs == 2

NestedCalls ==
    { << "extractAllKeys", logs >> :
        logs \in UNION { [1..n -> NestedRecords] : n \in 0..MaxNestedLogs } }

InitNested == AppInit /\ call \in NestedCalls /\ result = NoCall

SpecNested == InitNested /\ [][NextColumns]_vars

\* C15: every column that extractAllKeys obtains by nested traversal of records
\* without dotted keys is a dot-joined path of at most 3 segments; values
\* nested deeper contribute no column.
C15_AtMostThreeSegments ==
    Called("extractAllKeys") =>
        \A i \in DOMAIN result[2] : Len(SplitDots(result[2][i])) <= 3

\* C15, amended: such a column is a dot-joined path of at most 4 segments (the
\* traversal goes on while the prefix has fewer than 3); values nested deeper
\* contribute no column.
C15_AtMostFourSegments ==
    Called("extractAllKeys") =>
        \A i \in DOMAIN result[2] : Len(SplitDots(result[2][i])) <= 4

\* C15's case: a record nested five keys deep gives a column of four segments.
C15_Witness ==
    /\ Called("extractAllKeys")
    /\ \E r \in DOMAIN call[2] : call[2][r] = Nested(1, 5)
    /\ \E i \in DOMAIN result[2] : Len(SplitDots(result[2][i])) = 4

(***************************************************************************)
(* ColumnOrderer: reorderColumns                                           *)
(***************************************************************************)

ColumnNames == { kA, kB, kC, kD }

\* The longest list of columns.
MaxOrderColumns == 3

\* The longest list of timestamp columns.
MaxOrderTimestamps == 2

NoDuplicates(seq) == \A i, j \in DOMAIN seq : i # j => seq[i] # seq[j]

\* The lists of columns, without duplicates as those of a schema are, and any
\* lists of timestamp columns.
OrderCalls ==
    { << "reorderColumns", all, ts >> :
        all \in { seq \in UNION { [1..n -> ColumnNames] : n \in 0..MaxOrderColumns } :
                    NoDuplicates(seq) },
        ts \in UNION { [1..n -> ColumnNames] : n \in 0..MaxOrderTimestamps } }

InitOrder == AppInit /\ call \in OrderCalls /\ result = NoCall

\* reorderColumns(allColumns, timestampColumns)
callReorderColumns ==
    /\ call[1] = "reorderColumns"
    /\ result = NoCall
    /\ result' = Returned(reorderColumns(call[2], call[3]))
    /\ UNCHANGED << call, appVars >>

NextOrder == callReorderColumns

SpecOrder == InitOrder /\ [][NextOrder]_vars

\* C16: reorderColumns gives the timestamp columns in their given order, then
\* every column that is no timestamp column in the relative order of
\* allColumns; when the timestamp columns are a subset of allColumns without
\* duplicates, the result is a permutation of allColumns.
C16_TimestampColumnsFirst ==
    Called("reorderColumns") =>
        LET all == call[2]
            ts == call[3]
            out == result[2]
            rest == SubSeq(out, Len(ts) + 1, Len(out))
        IN  /\ Len(out) >= Len(ts)
            /\ SubSeq(out, 1, Len(ts)) = ts
            /\ Range(rest) = Range(all) \ Range(ts)
            /\ IsSubsequence(rest, all)
            /\ NoDuplicates(rest)
            /\ (NoDuplicates(ts) /\ Range(ts) \subseteq Range(all)) =>
                  /\ Len(out) = Len(all)
                  /\ Range(out) = Range(all)
                  /\ NoDuplicates(out)

\* C16's case: two timestamp columns of a schema of three columns, given
\* against the order of the schema.
C16_Witness ==
    /\ Called("reorderColumns")
    /\ Len(call[2]) = 3
    /\ Len(call[3]) = 2
    /\ Range(call[3]) \subseteq Range(call[2])
    /\ NoDuplicates(call[3])
    /\ ~IsSubsequence(call[3], call[2])
    /\ result[2] # call[2]

\* The set with the membership of column turned over.
Toggled(set, column) == IF column \in set THEN set \ {column} ELSE set \cup {column}

\* C17: each computation of the schema sets the enabled timestamp columns to
\* exactly the timestamp columns detected; a toggle then adds or removes the
\* one column only, so that the enabled columns are always among the
\* timestamp columns and a second toggle of the column restores the set.
C17_EnabledAreTimestampColumns ==
    /\ [](enabledTimestampColumns \subseteq Range(logStructure.timestampColumns))
    /\ [][ "structure" \in pending =>
             enabledTimestampColumns' = Range(logStructure'.timestampColumns) ]_vars
    /\ [][ \A column \in Range(logStructure.columns) :
             handleTimestampColumnToggle(column) =>
                /\ enabledTimestampColumns' = Toggled(enabledTimestampColumns, column)
                /\ enabledTimestampColumns' # enabledTimestampColumns
                /\ Toggled(enabledTimestampColumns', column) = enabledTimestampColumns ]_vars

\* C17's case: the one timestamp column of a loaded file has been toggled off.
C17_Witness ==
    /\ Idle
    /\ TableShown
    /\ humanReadableTime
    /\ logStructure.timestampColumns # << >>
    /\ enabledTimestampColumns = {}

\* C18: once the effects of an operation have run, the current page is at
\* least 1 and at most max(1, totalPages); a change of the records, the
\* filters or the sort order is followed by the effect that sets it to 1; and
\* Previous and Next change the current page and nothing else.
C18_CurrentPageWithinPages ==
    /\ [](currentPage >= 1)
    /\ [](Idle => currentPage <= Max(1, TotalPages(processedLogs)))
    /\ [][ (allLogs' # allLogs \/ filters' # filters \/ sortConfig' # sortConfig) =>
             "page" \in pending' ]_vars
    /\ [][ "page" \in pending => currentPage' = 1 ]_vars
    /\ [][ (previousPage \/ nextPage) =>
             /\ currentPage' # currentPage
             /\ UNCHANGED << allLogs, fileName, isLoading, error, logStructure,
                             humanReadableTime, enabledTimestampColumns, filters,
                             sortConfig, processedLogs, pending, readers >> ]_vars

\* C18's case: the second of two pages is shown.
C18_Witness ==
    /\ Idle
    /\ currentPage = 2
    /\ TotalPages(processedLogs) = 2

\* C19: the sort key is none, with no direction, or one of the columns, with
\* the direction ascending or descending; the effect of a load that gives a
\* column sets the first timestamp column, or else the first column,
\* descending; and requestSort on a column sets descending exactly when that
\* column was the key with the direction ascending, and ascending otherwise.
C19_SortKeyIsAColumn ==
    /\ [](\/ sortConfig = NoSort
          \/ /\ Tag(sortConfig.key) = "string"
             /\ Val(sortConfig.key) \in Range(logStructure.columns)
             /\ sortConfig.direction \in { "ascending", "descending" })
    /\ [][ ("structure" \in pending /\ Len(allLogs) > 0 /\ logStructure'.columns # << >>) =>
             sortConfig' =
                [key |-> IF logStructure'.timestampColumns # << >>
                         THEN JStr(logStructure'.timestampColumns[1])
                         ELSE JStr(logStructure'.columns[1]),
                 direction |-> "descending"] ]_vars
    /\ [][ \A key \in Range(logStructure.columns) :
             requestSort(key) =>
                /\ sortConfig'.key = JStr(key)
                /\ sortConfig'.direction =
                      IF sortConfig.key = JStr(key) /\ sortConfig.direction = "ascending"
                      THEN "descending" ELSE "ascending" ]_vars

\* C19's case: a column other than the default one is the sort key, descending,
\* as two requests on it leave it.
C19_Witness ==
    /\ Idle
    /\ TableShown
    /\ sortConfig.key # DefaultSortKey(logStructure)
    /\ sortConfig.direction = "descending"

(***************************************************************************)
(* The reads of files end                                                  *)
(***************************************************************************)

\* A FileReader that reads a file fires load or error in the end.
ReadersFinish ==
    WF_vars(\E file \in Files : readerOnload(file) \/ readerOnerror(file))

FairSpec == Spec /\ ReadersFinish

\* C20: a load that sets the loading flag clears it in the end, whether the
\* text parses, does not parse or cannot be read; and while the loading flag
\* is set or a file name is present no load starts, so at most one file is
\* being read at any time.
C20_LoadsEndOneAtATime ==
    /\ isLoading ~> ~isLoading
    /\ [](Cardinality(readers) <= 1)
    /\ [](isLoading <=> readers # {})
    /\ [][ (isLoading \/ Truthy(fileName)) => readers' \subseteq readers ]_vars

\* C20's case: a file is being read after another one was loaded and cleared.
C20_Witness ==
    /\ isLoading
    /\ Cardinality(readers) = 1
    /\ humanReadableTime

=============================================================================
